---- MODULE Spec2Model ----
(***************************************************************************)
(* The autoplay control loop of src/app.py: a headless browser is driven   *)
(* with arrow keys; after every key the board signature is re-read, an     *)
(* ineffective move is followed by escape probes, three counted invalid    *)
(* steps rotate the move order, and frames/logs are streamed throttled.    *)
(* Time is in milliseconds.                                                *)
(***************************************************************************)
EXTENDS Integers, Sequences, FiniteSets, TLC

\* ------------------------------------------------------------------ bounds
\* longest run on a live (changing) page
MaxMoves == 5
\* longest run on a live page whose score changes
ScoreMoves == 2
\* length of the run on a frozen page (long enough to fill the log buffer)
LongMoves == 60
\* value of time.time() when the run starts
T0 == 2000

\* --------------------------------------------------------- program constants
LOG_MAX == 80
STUCK == 3
MIN_DELAY == 70
SETTLE == 70
PROBE_SETTLE == 50
CYCLE == 4

MOVE_ORDERS ==
  [ s \in {"Up/Left Bias", "Left/Down Bias", "Clockwise"} |->
      CASE s = "Up/Left Bias"   -> <<"ArrowUp", "ArrowLeft", "ArrowRight", "ArrowDown">>
        [] s = "Left/Down Bias" -> <<"ArrowLeft", "ArrowDown", "ArrowRight", "ArrowUp">>
        [] s = "Clockwise"      -> <<"ArrowUp", "ArrowRight", "ArrowDown", "ArrowLeft">> ]

Directions == {"ArrowUp", "ArrowLeft", "ArrowRight", "ArrowDown"}

\* ------------------------------------------------------------------ helpers
Max(a, b) == IF a >= b THEN a ELSE b

\* sorted(classes): insertion of x into an ascending sequence
RECURSIVE Insert(_, _)
Insert(x, s) ==
  IF s = <<>> THEN <<x>>
  ELSE IF x <= Head(s) THEN <<x>> \o s
  ELSE <<Head(s)>> \o Insert(x, Tail(s))

RECURSIVE Sorted(_)
Sorted(s) == IF s = <<>> THEN <<>> ELSE Insert(Head(s), Sorted(Tail(s)))

\* A DOM query either answers or raises: [ok, val].
Answer(v) == [ok |-> TRUE, val |-> v]
RaisedTiles == [ok |-> FALSE, val |-> <<>>]
RaisedNum == [ok |-> FALSE, val |-> 0]

\* board_signature(page): the sorted tile classes joined; "" (here <<>>) when
\* there are no tiles or the query raises
board_signature(q) == IF q.ok THEN Sorted(q.val) ELSE <<>>

\* get_score(page): the parsed score, 0 when the lookup or the parse raises
get_score(q) == IF q.ok THEN q.val ELSE 0

\* a helper whose except branch answers True
is_game_over_FailsOver(q) == IF q.ok THEN q.val > 0 ELSE TRUE

\* is_game_over(page): a game-over element is present; False when the query raises
is_game_over(q) == IF q.ok THEN q.val > 0 ELSE FALSE

\* the popped element put back with insert(-1, first): before the last entry
Rotate_Insert(order) == <<order[2], order[3], order[1], order[4]>>

\* the new front appended instead of the popped element
Rotate_Dup(order) == Append(Tail(order), order[2])

\* move_order.pop(0); move_order.append(first)
Rotate(order) == Append(Tail(order), Head(order))

\* the index forgotten: always the front of the cycle
PrimaryKey_Front(order, step) == order[1]

\* move_order[i % 4]  (python lists are 0-based)
PrimaryKey(order, step) == order[(step % CYCLE) + 1]

\* move_order[1:]
Alternates(order) == Tail(order)

\* logs = logs[-80:] when len(logs) > 80
Trim(l) == IF Len(l) > LOG_MAX THEN SubSeq(l, Len(l) - LOG_MAX + 1, Len(l)) ELSE l

\* frame_delay = max(0.07, 1.0 / max(1, fps)), in milliseconds
FrameDelay(f) == Max(MIN_DELAY, 1000 \div Max(1, f))

\* log lines: <<kind, number, score, order>>
LoadedLine == <<"Loaded URL", 0, 0, <<>> >>
MoveLine(n, s) == <<"Move", n, s, <<>> >>
OverLine == <<"Game Over detected. Stopping.", 0, 0, <<>> >>
RotatedLine(order) == <<"Rotated move order", 0, 0, order>>

\* ------------------------------------------------------------- environment
\* what a page can show (tile class lists in document order, score, number of
\* game-over elements): a live game whose score stays 0, a live game that
\* scores, and a page whose board never changes
LivePage == [tiles |-> {<<>>, <<1, 2>>, <<2, 1>>}, scores |-> {0}, overs |-> {0, 1}]
ScoringPage == [tiles |-> {<<>>, <<1, 2>>, <<2, 1>>}, scores |-> {0, 4}, overs |-> {0, 1}]
FrozenPage == [tiles |-> {<<>>}, scores |-> {0}, overs |-> {0, 1}]

\* fps values (0 is clamped to 1 by max(1, fps))
FpsSet == {0, 5, 20}

\* -------------------------------------------------------------------- state
VARIABLES
  pc,          \* position in autoplay
  page,        \* what the page at url can show during this run
  moves, fps, strategy,                       \* autoplay's arguments
  table,       \* the module-level dict MOVE_ORDERS as it is at run time
  move_order, frame_delay, logs, last_frame,  \* locals set before the try
  last_sig, invalid, i, sig, alts, changed, score,  \* locals of the loop
  clock,       \* the wall clock, time.time()
  browser,     \* the browser of line 74: "none", "open" or "closed"
  closes,      \* number of calls of browser.close()
  exc,         \* the exception that ended the run, "none" when there is none
  reported,    \* the st.error category shown, "none" when there is none
  shown,       \* the log text last handed to logs_ph.code
  lastEmit,    \* history: kind and time of the latest frame handed to img_ph.image
  asked,       \* history: the page query made by the latest transition, if any
  stepKeys,    \* history: the key events of the current step, in order
  nkeys,       \* history: number of key events sent so far
  nprimary,    \* history: number of primary key events sent so far
  primaries,   \* history: the primary keys sent since the last rotation
  streak,      \* history: consecutive steps, since the last rotation, in which
               \*          neither the primary key nor a probe changed the signature
  rotations,   \* history: number of rotations of move_order
  over,        \* history: is_game_over has returned True
  result       \* history: how the run left the loop

vars == <<pc, page, moves, fps, strategy, table, move_order, frame_delay, logs,
          last_frame, last_sig, invalid, i, sig, alts, changed, score, clock,
          browser, closes, exc, reported, shown, lastEmit, asked, stepKeys,
          nkeys, nprimary, primaries, streak, rotations, over, result>>

args == <<page, moves, fps, strategy>>
loopLocals == <<last_sig, invalid, i, sig, alts, changed, score>>
sent == <<stepKeys, nkeys, nprimary, primaries>>
history == <<sent, streak, rotations, over, result>>
handled == <<exc, reported>>

TileQueries == {Answer(t) : t \in page.tiles} \cup {RaisedTiles}
ScoreQueries == {Answer(s) : s \in page.scores} \cup {RaisedNum}
OverQueries == {Answer(n) : n \in page.overs} \cup {RaisedNum}

KeyEvent(k, kind) == [step |-> i, key |-> k, kind |-> kind]

\* the query a transition made: which helper, and whether its try body raised
Asked(fn, q) == [fn |-> fn, raised |-> ~q.ok]
NoQuery == [fn |-> "none", raised |-> FALSE]

\* a frame handed to the sink
Frame(kind, t) == [kind |-> kind, at |-> t]

Init ==
  /\ pc = "install"
  /\ \/ page = LivePage /\ moves \in 0..MaxMoves
     \/ page = ScoringPage /\ moves \in 1..ScoreMoves
     \/ page = FrozenPage /\ moves = LongMoves
  /\ fps \in FpsSet
  /\ strategy \in DOMAIN MOVE_ORDERS
  /\ table = MOVE_ORDERS
  /\ move_order = <<>> /\ frame_delay = 0 /\ logs = <<>> /\ last_frame = 0
  /\ last_sig = <<>> /\ invalid = 0 /\ i = 0 /\ sig = <<>> /\ alts = <<>>
  /\ changed = FALSE /\ score = 0
  /\ clock = T0
  /\ browser = "none" /\ closes = 0 /\ exc = "none" /\ reported = "none"
  /\ shown = <<>> /\ lastEmit = Frame("none", 0) /\ asked = NoQuery
  /\ stepKeys = <<>> /\ nkeys = 0 /\ nprimary = 0 /\ primaries = <<>> /\ streak = 0
  /\ rotations = 0 /\ over = FALSE /\ result = "none"

\* lines 140-148: the except clauses, by exception class
Handler(e) ==
  CASE e = "CalledProcessError" -> "installer"
    [] e = "PWError" -> "playwright"
    [] OTHER -> "unexpected"

\* line 72: leaving the with sync_playwright() block stops the driver, which
\* takes a browser that is still open down with it
LeaveWith(b) == IF b = "open" THEN "closed" ELSE b

\* a handler that swallows the exception and lets the call site go on
Fail_Retry(e, b) ==
  /\ pc' = pc
  /\ result' = "Failed"
  /\ exc' = e
  /\ reported' = Handler(e)
  /\ browser' = b
  /\ asked' = NoQuery

\* an exception of class e is raised inside the try while the browser is in
\* state b: the with block is left and the matching except clause reports it
Fail(e, b) ==
  /\ pc' = "failed"
  /\ result' = "Failed"
  /\ exc' = e
  /\ reported' = Handler(e)
  /\ browser' = LeaveWith(b)
  /\ asked' = NoQuery

\* move_order bound to the very list held by MOVE_ORDERS
SharesPreset_Alias == TRUE

\* line 63: .copy() gives move_order a list of its own: it does not share the
\* list object held by MOVE_ORDERS
SharesPreset == FALSE

\* lines 61-69: ensure_pw_chromium, then the locals set before the try
\* (session_state has no pw_installed yet: a first run)
Install ==
  /\ pc = "install"
  /\ pc' = "launch"
  /\ move_order' = table[strategy]
  /\ frame_delay' = FrameDelay(fps)
  /\ logs' = <<LoadedLine>>
  /\ last_frame' = 0
  /\ UNCHANGED <<args, table, loopLocals, clock, browser, closes, handled, shown,
                 lastEmit, asked, history>>

\* line 61: the installer exits non-zero (subprocess.run(check=True) raises
\* CalledProcessError); the call is outside the try, so no except clause runs
InstallRaises ==
  /\ pc = "install"
  /\ pc' = "raised"
  /\ result' = "Uncaught"
  /\ exc' = "CalledProcessError"
  /\ UNCHANGED <<args, table, move_order, frame_delay, logs, last_frame, loopLocals,
                 clock, browser, closes, reported, shown, lastEmit, asked, sent,
                 streak, rotations, over>>

\* lines 72-89: launch, open the page, initial frame, first signature
Launch ==
  /\ pc = "launch"
  /\ browser' = "open"
  /\ \E q \in TileQueries :
       /\ last_sig' = board_signature(q)
       /\ asked' = Asked("board_signature", q)
  /\ shown' = logs
  /\ lastEmit' = Frame("initial", clock)
  /\ invalid' = 0
  /\ i' = 0
  /\ pc' = "loop"
  /\ UNCHANGED <<args, table, move_order, frame_delay, logs, last_frame, sig, alts,
                 changed, score, clock, closes, handled, history>>

\* lines 72-85: starting the driver, the launch, goto or the first screenshot
\* raises; the browser may or may not have been launched by then
LaunchFails ==
  /\ pc = "launch"
  /\ \E launched \in BOOLEAN, e \in {"PWError", "Exception"} :
       Fail(e, IF launched THEN "open" ELSE "none")
  /\ UNCHANGED <<args, table, move_order, frame_delay, logs, last_frame, loopLocals,
                 clock, closes, shown, lastEmit, sent, streak, rotations, over>>

\* a loop whose bound is off by one: range(moves + 1)
MoreSteps_OffByOne(step, budget) == step <= budget

\* line 91: the for loop has another index
MoreSteps(step, budget) == step < budget

\* lines 92-95: the primary key, the settle delay, the signature after it
Primary ==
  /\ pc = "loop" /\ MoreSteps(i, moves)
  /\ LET ev == KeyEvent(PrimaryKey(move_order, i), "primary") IN
       /\ stepKeys' = <<ev>>
       /\ primaries' = Append(primaries, ev)
  /\ nkeys' = nkeys + 1
  /\ nprimary' = nprimary + 1
  /\ clock' = clock + SETTLE
  /\ \E q \in TileQueries :
       /\ sig' = board_signature(q)
       /\ asked' = Asked("board_signature", q)
  /\ pc' = "detect"
  /\ UNCHANGED <<args, table, move_order, frame_delay, logs, last_frame, last_sig,
                 invalid, i, alts, changed, score, browser, closes, handled, shown,
                 lastEmit, streak, rotations, over, result>>

\* lines 92-93: page.keyboard.press raises (no key event is sent), or the key
\* is sent and page.wait_for_timeout raises
PrimaryFails ==
  /\ pc = "loop" /\ MoreSteps(i, moves)
  /\ \E pressed \in BOOLEAN :
       IF pressed
         THEN LET ev == KeyEvent(PrimaryKey(move_order, i), "primary") IN
              /\ stepKeys' = <<ev>>
              /\ primaries' = Append(primaries, ev)
              /\ nkeys' = nkeys + 1
              /\ nprimary' = nprimary + 1
         ELSE UNCHANGED sent
  /\ Fail("PWError", browser)
  /\ UNCHANGED <<args, table, move_order, frame_delay, logs, last_frame, loopLocals,
                 clock, closes, shown, lastEmit, streak, rotations, over>>

\* line 96 and lines 109-110: the board changed, or the escape probes start
Detect ==
  /\ pc = "detect"
  /\ IF sig = last_sig
       THEN /\ changed' = FALSE
            /\ alts' = Alternates(move_order)
            /\ pc' = "probe"
            /\ UNCHANGED <<invalid, streak>>
       ELSE /\ invalid' = 0
            /\ streak' = 0
            /\ pc' = "record"
            /\ UNCHANGED <<changed, alts>>
  /\ asked' = NoQuery
  /\ UNCHANGED <<args, table, move_order, frame_delay, logs, last_frame, last_sig,
                 i, sig, score, clock, browser, closes, handled, shown, lastEmit,
                 sent, rotations, over, result>>

\* lines 99-106: one escape probe; the first that changes the signature breaks
Probe ==
  /\ pc = "probe" /\ ~changed /\ alts # <<>>
  /\ stepKeys' = Append(stepKeys, KeyEvent(Head(alts), "probe"))
  /\ nkeys' = nkeys + 1
  /\ clock' = clock + PROBE_SETTLE
  /\ \E q \in TileQueries :
       LET new_sig == board_signature(q) IN
       /\ asked' = Asked("board_signature", q)
       /\ IF new_sig # sig
            THEN sig' = new_sig /\ changed' = TRUE /\ UNCHANGED alts
            ELSE alts' = Tail(alts) /\ UNCHANGED <<sig, changed>>
  /\ UNCHANGED <<pc, args, table, move_order, frame_delay, logs, last_frame,
                 last_sig, invalid, i, score, browser, closes, handled, shown,
                 lastEmit, nprimary, primaries, streak, rotations, over, result>>

\* lines 100-101: page.keyboard.press(alt) raises (no key event is sent), or
\* the key is sent and page.wait_for_timeout raises
ProbeFails ==
  /\ pc = "probe" /\ ~changed /\ alts # <<>>
  /\ \E pressed \in BOOLEAN :
       IF pressed
         THEN /\ stepKeys' = Append(stepKeys, KeyEvent(Head(alts), "probe"))
              /\ nkeys' = nkeys + 1
              /\ UNCHANGED <<nprimary, primaries>>
         ELSE UNCHANGED sent
  /\ Fail("PWError", browser)
  /\ UNCHANGED <<args, table, move_order, frame_delay, logs, last_frame, loopLocals,
                 clock, closes, shown, lastEmit, streak, rotations, over>>

\* an increment by two
Counted_Twice(inv, ch) == IF ~ch THEN inv + 2 ELSE inv

\* lines 107-108: if not changed: invalid += 1
Counted(inv, ch) == IF ~ch THEN inv + 1 ELSE inv

Count ==
  /\ pc = "probe" /\ (changed \/ alts = <<>>)
  /\ invalid' = Counted(invalid, changed)
  /\ streak' = IF changed THEN 0 ELSE streak + 1
  /\ pc' = "record"
  /\ asked' = NoQuery
  /\ UNCHANGED <<args, table, move_order, frame_delay, logs, last_frame, last_sig,
                 i, sig, alts, changed, score, clock, browser, closes, handled,
                 shown, lastEmit, sent, rotations, over, result>>

\* lines 112-116: remember the signature, read the score, log the move
Record ==
  /\ pc = "record"
  /\ last_sig' = sig
  /\ \E q \in ScoreQueries :
       /\ score' = get_score(q)
       /\ asked' = Asked("get_score", q)
       /\ logs' = Trim(Append(logs, MoveLine(i + 1, score')))
  /\ pc' = "emit"
  /\ UNCHANGED <<args, table, move_order, frame_delay, last_frame, invalid, i, sig,
                 alts, changed, clock, browser, closes, handled, shown, lastEmit,
                 history>>

\* a throttle that lets every frame through
Due_Always(now, last, delay) == now - last >= 0

\* now - last_frame >= frame_delay
Due(now, last, delay) == now - last >= delay

\* lines 119-123: a frame and the logs, when the throttle allows
Emit ==
  /\ pc = "emit"
  /\ LET now == clock IN
     IF Due(now, last_frame, frame_delay)
       THEN /\ shown' = logs
            /\ lastEmit' = Frame("throttled", now)
            /\ last_frame' = now
       ELSE UNCHANGED <<shown, lastEmit, last_frame>>
  /\ pc' = "check"
  /\ asked' = NoQuery
  /\ UNCHANGED <<args, table, move_order, frame_delay, logs, loopLocals, clock,
                 browser, closes, handled, history>>

\* line 121: the screenshot raises
EmitFails ==
  /\ pc = "emit" /\ Due(clock, last_frame, frame_delay)
  /\ Fail("PWError", browser)
  /\ UNCHANGED <<args, table, move_order, frame_delay, logs, last_frame, loopLocals,
                 clock, closes, shown, lastEmit, sent, streak, rotations, over>>

\* a threshold that is one too high
IsStuck_Late(inv) == inv > STUCK

\* line 131: if invalid >= 3
IsStuck(inv) == inv >= STUCK

\* lines 133-134 seen from MOVE_ORDERS: the dict changes only when move_order
\* is the very list it holds
Rotated(t, name, order) == IF SharesPreset THEN [t EXCEPT ![name] = order] ELSE t

\* the same block without its break: the step goes on to line 131
GameOver_NoBreak ==
  /\ pc = "check"
  /\ \E q \in OverQueries : is_game_over(q) /\ asked' = Asked("is_game_over", q)
  /\ over' = TRUE
  /\ shown' = Append(logs, OverLine)
  /\ lastEmit' = Frame("forced", clock)
  /\ IF IsStuck(invalid)
       THEN /\ move_order' = Rotate(move_order)
            /\ table' = Rotated(table, strategy, move_order')
            /\ logs' = Append(Append(logs, OverLine), RotatedLine(move_order'))
            /\ invalid' = 0
            /\ rotations' = rotations + 1
            /\ primaries' = <<>>
            /\ streak' = 0
       ELSE /\ logs' = Append(logs, OverLine)
            /\ UNCHANGED <<move_order, table, invalid, rotations, primaries, streak>>
  /\ i' = i + 1
  /\ pc' = "loop"
  /\ UNCHANGED <<args, frame_delay, last_frame, last_sig, sig, alts, changed, score,
                 clock, browser, closes, handled, stepKeys, nkeys, nprimary, result>>

\* the same block with its frame behind the throttle of line 120
GameOver_Throttled ==
  /\ pc = "check"
  /\ \E q \in OverQueries : is_game_over(q) /\ asked' = Asked("is_game_over", q)
  /\ over' = TRUE
  /\ logs' = Append(logs, OverLine)
  /\ IF Due(clock, last_frame, frame_delay)
       THEN shown' = logs' /\ lastEmit' = Frame("forced", clock)
       ELSE UNCHANGED <<shown, lastEmit>>
  /\ result' = "GameOver"
  /\ pc' = "close"
  /\ UNCHANGED <<args, table, move_order, frame_delay, last_frame, loopLocals, clock,
                 browser, closes, handled, sent, streak, rotations>>

\* lines 125-129: game over: final line, forced frame, break
GameOver ==
  /\ pc = "check"
  /\ \E q \in OverQueries : is_game_over(q) /\ asked' = Asked("is_game_over", q)
  /\ over' = TRUE
  /\ logs' = Append(logs, OverLine)
  /\ shown' = logs'
  /\ lastEmit' = Frame("forced", clock)
  /\ result' = "GameOver"
  /\ pc' = "close"
  /\ UNCHANGED <<args, table, move_order, frame_delay, last_frame, loopLocals, clock,
                 browser, closes, handled, sent, streak, rotations>>

\* line 127: the final screenshot raises
FinalFrameFails ==
  /\ pc = "check"
  /\ \E q \in OverQueries : is_game_over(q)
  /\ over' = TRUE
  /\ logs' = Append(logs, OverLine)
  /\ Fail("PWError", browser)
  /\ UNCHANGED <<args, table, move_order, frame_delay, last_frame, loopLocals, clock,
                 closes, shown, lastEmit, sent, streak, rotations>>

\* lines 125, 131-136: not over; rotate when stuck; next index
EndStep ==
  /\ pc = "check"
  /\ \E q \in OverQueries : ~is_game_over(q) /\ asked' = Asked("is_game_over", q)
  /\ IF IsStuck(invalid)
       THEN /\ move_order' = Rotate(move_order)
            /\ table' = Rotated(table, strategy, move_order')
            /\ logs' = Append(logs, RotatedLine(move_order'))
            /\ invalid' = 0
            /\ rotations' = rotations + 1
            /\ primaries' = <<>>
            /\ streak' = 0
       ELSE UNCHANGED <<move_order, table, logs, invalid, rotations, primaries,
                        streak>>
  /\ i' = i + 1
  /\ pc' = "loop"
  /\ UNCHANGED <<args, frame_delay, last_frame, last_sig, sig, alts, changed, score,
                 clock, browser, closes, handled, shown, lastEmit, stepKeys, nkeys,
                 nprimary, over, result>>

\* line 91: range(moves) is used up
Exhausted ==
  /\ pc = "loop" /\ ~MoreSteps(i, moves)
  /\ result' = "Exhausted"
  /\ pc' = "close"
  /\ asked' = NoQuery
  /\ UNCHANGED <<args, table, move_order, frame_delay, logs, last_frame, loopLocals,
                 clock, browser, closes, handled, shown, lastEmit, sent, streak,
                 rotations, over>>

\* line 138: browser.close(), then the with block is left
Close ==
  /\ pc = "close"
  /\ closes' = closes + 1
  /\ browser' = "closed"
  /\ pc' = "done"
  /\ asked' = NoQuery
  /\ UNCHANGED <<args, table, move_order, frame_delay, logs, last_frame, loopLocals,
                 clock, handled, shown, lastEmit, history>>

\* line 138: browser.close() raises
CloseFails ==
  /\ pc = "close"
  /\ closes' = closes + 1
  /\ Fail("PWError", browser)
  /\ UNCHANGED <<args, table, move_order, frame_delay, logs, last_frame, loopLocals,
                 clock, shown, lastEmit, sent, streak, rotations, over>>

Next ==
  \/ Install \/ InstallRaises \/ Launch \/ LaunchFails
  \/ Primary \/ PrimaryFails \/ Detect \/ Probe \/ ProbeFails \/ Count
  \/ Record \/ Emit \/ EmitFails \/ GameOver \/ FinalFrameFails \/ EndStep
  \/ Exhausted \/ Close \/ CloseFails

Spec == Init /\ [][Next]_vars

\* ------------------------------------------------------------------- claims
InStep == pc \in {"detect", "probe", "record", "emit", "check"}
Ended == pc \in {"done", "failed", "raised"}

\* C1 (as stated): once an end-of-step is_game_over check has returned true,
\* the run ends in Finished(GameOver).
C1_EndsGameOver == (over /\ Ended) => result = "GameOver"

\* C1 (amended): from the transition in which is_game_over returns true on, no
\* key event is sent, no step begins and the step index stays; the run has
\* left the loop as GameOver, or has failed because the forced final
\* screenshot or browser.close() raised.
C1_StopsAtGameOver ==
  [][over' =>
       /\ nkeys' = nkeys /\ nprimary' = nprimary /\ i' = i
       /\ pc' \in {"close", "done", "failed"}
       /\ (pc' \in {"close", "done"} => result' = "GameOver")
       /\ (pc' = "failed" => result' = "Failed")]_vars

\* game over at step 3 of 5: steps 4 and 5 never ran
C1_Witness ==
  /\ pc = "done" /\ over /\ result = "GameOver"
  /\ moves = 5 /\ i = 2 /\ nprimary = 3

\* C2: a run in which is_game_over never returned true and no driver call
\* raised has sent exactly moves primary keys, the k-th of them at step index
\* k-1, and has left the loop as Exhausted.
C2_Exhausted ==
  /\ (nprimary > 0 =>
        /\ stepKeys[1].kind = "primary"
        /\ stepKeys[1].step = nprimary - 1
        /\ \A k \in 2..Len(stepKeys) : stepKeys[k].kind = "probe")
  /\ (pc = "done" /\ ~over => result = "Exhausted" /\ nprimary = moves /\ i = moves)

C2_Witness ==
  pc = "done" /\ ~over /\ result = "Exhausted" /\ moves = MaxMoves /\ nprimary = MaxMoves

\* C3: when the change detection of a step ends with the signature still equal
\* to last_sig (the primary key and every probe left it unchanged), invalid
\* has grown by exactly 1; when the signature read after the primary key
\* differs from last_sig (no probe was sent), invalid is 0.
C3_StreakCounts ==
  [][(pc # "record" /\ pc' = "record") =>
       /\ (sig' = last_sig => invalid' = invalid + 1)
       /\ (sig' # last_sig /\ Len(stepKeys') = 1 => invalid' = 0)]_vars

\* a third ineffective step in a row has been counted, after a reset
C3_Witness ==
  /\ pc = "record" /\ sig = last_sig /\ Len(stepKeys) = 4 /\ invalid = 3
  /\ rotations = 0 /\ i = 2

\* the step at hand ended its change detection with a successful escape probe
Escaped == sig # last_sig /\ Len(stepKeys) > 1

\* C4 (as stated): a step whose primary key was ineffective and whose escape
\* probe changed the signature resets invalid to 0, and the cycle is rotated
\* only after three consecutive steps with neither an effective primary key
\* nor a successful escape.
C4_EscapeResets ==
  [][/\ (pc # "record" /\ pc' = "record" /\ Escaped') => invalid' = 0
     /\ (rotations' # rotations => streak = STUCK)]_vars

\* C5 (as stated): the third consecutive ineffective step (no successful
\* escape) ends with the cycle rotated left once and invalid reset to 0.
C5_RotatesAfterThree ==
  [][(pc = "check" /\ pc' \in {"loop", "close"} /\ streak = STUCK) =>
       /\ rotations' = rotations + 1
       /\ move_order' = SubSeq(move_order, 2, 4) \o <<move_order[1]>>
       /\ invalid' = 0]_vars

\* C5 (amended): the third consecutive ineffective step (no successful escape,
\* no rotation in between) whose is_game_over check returns false ends with
\* the cycle rotated left exactly once, the new order logged and invalid
\* reset to 0; when that check returns true the run stops without rotating.
C5_RotatesUnlessOver ==
  [][/\ (pc = "check" /\ pc' = "loop" /\ streak = STUCK) =>
          /\ rotations' = rotations + 1
          /\ move_order' = SubSeq(move_order, 2, 4) \o <<move_order[1]>>
          /\ logs'[Len(logs')] = <<"Rotated move order", 0, 0, move_order'>>
          /\ invalid' = 0
     /\ (pc = "check" /\ pc' # "loop") =>
          /\ rotations' = rotations
          /\ move_order' = move_order]_vars

\* the scenario of the claim: three steps on an unchanged board, preset
\* [Up, Left, Right, Down]
C5_Witness ==
  /\ pc = "loop" /\ i = 3 /\ rotations = 1 /\ invalid = 0
  /\ strategy = "Up/Left Bias"
  /\ move_order = <<"ArrowLeft", "ArrowRight", "ArrowDown", "ArrowUp">>
  /\ logs[Len(logs)][1] = "Rotated move order"

HasCycle == pc \notin {"install", "raised"}

\* C6: from line 63 on, for every preset, move_order has exactly four entries
\* and holds each arrow direction exactly once; every change of it moves its
\* first entry to the end.
C6_CycleIsPermutation ==
  /\ [](HasCycle =>
          /\ Len(move_order) = 4
          /\ \A d \in Directions : Cardinality({k \in 1..4 : move_order[k] = d}) = 1)
  /\ [][HasCycle /\ move_order' # move_order =>
          move_order' = SubSeq(move_order, 2, 4) \o <<move_order[1]>>]_vars

C6_Witness ==
  /\ rotations = 2 /\ strategy = "Left/Down Bias"
  /\ move_order = <<"ArrowRight", "ArrowUp", "ArrowLeft", "ArrowDown">>

\* C7: for every preset, after 4 rotations (and after every multiple of 4)
\* the cycle is back in the preset's order.
C7_FourRotations ==
  (HasCycle /\ rotations % 4 = 0) => move_order = MOVE_ORDERS[strategy]

C7_Witness ==
  rotations = 4 /\ strategy = "Clockwise" /\ move_order = MOVE_ORDERS["Clockwise"]

\* C8: every primary key sent since the last rotation is
\* move_order[step mod 4] of the cycle as it is since then, so two of them
\* whose step indices differ by a multiple of 4 are the same key.
C8_PrimaryIsCycleEntry ==
  /\ \A k \in DOMAIN primaries :
       primaries[k].key = move_order[(primaries[k].step % 4) + 1]
  /\ \A a, b \in DOMAIN primaries :
       (primaries[a].step - primaries[b].step) % 4 = 0
         => primaries[a].key = primaries[b].key
  /\ (InStep => stepKeys[1] = primaries[Len(primaries)])

\* steps 0 and 4 with no rotation in between
C8_Witness ==
  /\ Len(primaries) = 5
  /\ primaries[1].step = 0 /\ primaries[5].step = 4
  /\ primaries[1].key = primaries[5].key
  /\ primaries[2].key # primaries[1].key

\* the directions other than d, in the order of the cycle
Others(order, d) == SelectSeq(order, LAMBDA x : x # d)

\* C9 (as stated): the probes of a step are the directions other than the
\* step's primary key, in cycle order; the primary key is never probed.
C9_ProbesSkipPrimary ==
  (pc \in {"probe", "record", "emit", "check"} /\ Len(stepKeys) > 1) =>
    /\ \A k \in 2..Len(stepKeys) :
         stepKeys[k].key = Others(move_order, stepKeys[1].key)[k - 1]
    /\ \A k \in 2..Len(stepKeys) : stepKeys[k].key # stepKeys[1].key

\* C10 (as stated): the log buffer, and the log text published to the sink,
\* never hold more than 80 lines.
C10_LogBounded == Len(logs) <= LOG_MAX /\ Len(shown) <= LOG_MAX

\* C11: a failure while sending a key or taking a screenshot is fatal: the
\* transition in which the run becomes Failed goes to the except clause, which
\* reports a category; the call is not retried, and once the run is Failed no
\* step of any kind is taken, so no key event and no loop step follows.
C11_FailureIsFatal ==
  [][/\ result # "Failed"
     /\ (result' = "Failed" =>
           /\ pc' = "failed"
           /\ exc' # "none"
           /\ reported' \in {"playwright", "unexpected"})]_vars

\* the key press on step 2 raised: one key event was sent, by step 1
C11_Witness ==
  /\ pc = "failed" /\ result = "Failed" /\ reported = "playwright"
  /\ i = 1 /\ nkeys = 1 /\ nprimary = 1 /\ ~over /\ closes = 0

\* the loop was entered: the initial frame of line 85 was taken
Launched == lastEmit.kind # "none"

C13_FailuresReported ==
  exc # "none" =>
    /\ pc = "failed" /\ result = "Failed"
    /\ reported = Handler(exc)

\* C14: a page query that raises is answered by its default (empty
\* signature, score 0, not over) and the run goes on: it is not Failed, and a
\* raising is_game_over leaves the loop running instead of ending it as
\* GameOver.
C14_QueriesSwallowed ==
  asked.raised =>
    /\ pc \notin {"failed", "raised"} /\ result # "Failed" /\ exc = "none"
    /\ (asked.fn = "board_signature" =>
          IF pc = "loop" THEN last_sig = <<>> ELSE sig = <<>>)
    /\ (asked.fn = "get_score" => score = 0 /\ pc = "emit")
    /\ (asked.fn = "is_game_over" =>
          ~over /\ result = "none" /\ pc = "loop")

\* is_game_over raised at the end of step 2 and step 3 is about to start
C14_Witness ==
  /\ asked = [fn |-> "is_game_over", raised |-> TRUE]
  /\ pc = "loop" /\ i = 2 /\ moves > 2 /\ ~over

\* the time between the latest frame and the one before it
Gap == lastEmit'.at - lastEmit.at

\* C15 (as stated): for fps >= 1, a frame that is not the forced one at game
\* over comes at least 1/fps seconds (1000/fps ms) after the frame before it,
\* unless that one was forced.
C15_NoCloseFrames ==
  [][(/\ fps >= 1
      /\ lastEmit' # lastEmit
      /\ lastEmit'.kind # "forced"
      /\ lastEmit.kind \notin {"none", "forced"})
       => Gap * fps >= 1000]_vars

\* C15 (amended): a frame emitted by the throttled block of lines 120-123
\* comes at least frame_delay = max(70 ms, 1/max(1, fps)) after the previous
\* frame of that block, hence at least 1/fps seconds after it; the initial
\* frame of line 85 and the forced frame of line 127 are outside the throttle
\* and do not move last_frame.
C15_ThrottledSpacing ==
  [][(lastEmit' # lastEmit /\ lastEmit'.kind = "throttled") =>
       /\ lastEmit'.at = last_frame'
       /\ (lastEmit.kind = "throttled" =>
             /\ lastEmit.at = last_frame
             /\ Gap >= frame_delay
             /\ Gap * Max(1, fps) >= 1000)
       /\ (lastEmit.kind = "initial" => last_frame = 0)]_vars

\* fps 5: a throttled frame later than any first one, so at least the
\* second, while the frame of the current step was held back
C15_Witness ==
  /\ fps = 5 /\ frame_delay = 200
  /\ lastEmit.kind = "throttled"
  /\ lastEmit.at > T0 + SETTLE + 3 * PROBE_SETTLE
  /\ pc = "check" /\ lastEmit.at < clock

\* C16: when the run has left the loop as GameOver, the final line is the
\* last line of the log, and that log and a frame were published at the time
\* of the check, whatever the throttle would have allowed.
C16_FinalPublished ==
  result = "GameOver" =>
    /\ over
    /\ logs[Len(logs)] = OverLine
    /\ shown = logs
    /\ lastEmit = Frame("forced", clock)

\* game over 70 ms after a throttled frame, with a frame delay of 1000 ms
C16_Witness ==
  /\ result = "GameOver" /\ pc = "done"
  /\ frame_delay = 1000
  /\ clock - last_frame = SETTLE
  /\ ~Due(clock, last_frame, frame_delay)

\* C17: MOVE_ORDERS holds its original lists in every state of a run, however
\* often move_order was rotated, so a later run reads the original order.
C17_PresetsKept ==
  /\ table = MOVE_ORDERS
  /\ (HasCycle /\ rotations = 0 => move_order = MOVE_ORDERS[strategy])

\* a finished run with two rotations: move_order differs from the preset
C17_Witness ==
  /\ pc = "done" /\ rotations = 2
  /\ move_order # MOVE_ORDERS[strategy]
  /\ move_order = Rotate(Rotate(table[strategy]))

\* C18 (as stated): a run that has ended is in exactly one of GameOver,
\* Exhausted or Failed; it has run at most moves steps; every step sends
\* between 1 and 4 key events, exactly 1 when the primary key changed the
\* signature, and no probe follows a probe that changed it.
C18_Terminates ==
  /\ Ended => result \in {"GameOver", "Exhausted", "Failed"}
  /\ nprimary <= moves /\ i <= moves /\ nkeys <= 4 * moves
  /\ (InStep => Len(stepKeys) \in 1..4 /\ stepKeys[1].kind = "primary")
  /\ (pc = "detect" => Len(stepKeys) = 1)
  /\ (pc = "probe" =>
        /\ ~changed => sig = last_sig
        /\ Len(stepKeys) = 4 - Len(alts) + (IF changed THEN 1 ELSE 0))
  /\ (pc = "record" =>
        IF sig = last_sig THEN Len(stepKeys) = 4 ELSE Len(stepKeys) < 4 \/ changed)
  /\ (pc \in {"record", "emit", "check"} /\ Len(stepKeys) \in 2..3 => changed)

\* C19: invalid is 0, 1 or 2 when a step starts, never exceeds 3, and is 3
\* only from the increment of a step until that same step rotates or leaves
\* the loop (game over, or a raising screenshot).
C19_StreakBounded ==
  /\ invalid \in 0..STUCK
  /\ (pc \in {"loop", "detect", "probe"} => invalid \in 0..(STUCK - 1))
  /\ (invalid = STUCK =>
        /\ i < moves
        /\ Len(stepKeys) = 4 /\ stepKeys[1].step = i /\ ~changed
        /\ (pc \in {"record", "emit", "check"}
              \/ (pc \in {"close", "done", "failed"} /\ (over \/ result = "Failed"))))

\* the third stuck step in a row, before its rotation
C19_Witness == invalid = 3 /\ pc = "check" /\ i = 2 /\ rotations = 0
====
